---------------------------- MODULE Spec2Model ----------------------------
(***************************************************************************)
(* A model of the myjson library (namespace myjson, class json): the       *)
(* tagged value, its accessors and mutators, dump() and the recursive      *)
(* descent parser.  The library version modelled is the latest one, the    *)
(* second header of src/unnamed/part_000 (lines 554-1177).                  *)
(*                                                                         *)
(* A std::string is a sequence of one-character strings.  A json is a      *)
(* record [type, data]; data models the std::variant: index names the      *)
(* alternative it holds and one field per alternative carries the value.   *)
(***************************************************************************)
EXTENDS Integers, Sequences, FiniteSets, TLC

VARIABLES j, pre, op, outcome, ret, text, res, written

vars == <<j, pre, op, outcome, ret, text, res, written>>

-----------------------------------------------------------------------------
(* Bounds of the model *)

\* largest number of json nodes in the tree held by j
MaxNodes == 3
\* longest text handed to parse in SpecParse
MaxLen == 6
\* call depth at which the recursion of parse exhausts the stack
StackLimit == 8

-----------------------------------------------------------------------------
(* Characters and std::string *)

NUL == "NUL"
\* the character at the size() position of a std::string is '\0'
Digits == {"0", "1", "2", "3", "4", "5", "6", "7", "8", "9"}

isdigit(c) == c \in Digits

\* regex \s
Whitespace == {" ", "\t", "\n", "\f", "\r"}

DigitVal(c) ==
  CASE c = "0" -> 0 [] c = "1" -> 1 [] c = "2" -> 2 [] c = "3" -> 3
    [] c = "4" -> 4 [] c = "5" -> 5 [] c = "6" -> 6 [] c = "7" -> 7
    [] c = "8" -> 8 [] c = "9" -> 9

DigitChar(d) ==
  CASE d = 0 -> "0" [] d = 1 -> "1" [] d = 2 -> "2" [] d = 3 -> "3"
    [] d = 4 -> "4" [] d = 5 -> "5" [] d = 6 -> "6" [] d = 7 -> "7"
    [] d = 8 -> "8" [] d = 9 -> "9"

\* the byte value of a character (ASCII), which orders std::string
CharCode(c) ==
  CASE c = "\t" -> 9 [] c = "\n" -> 10 [] c = "\f" -> 12 [] c = "\r" -> 13
    [] c = " " -> 32 [] c = "\"" -> 34
    [] c = "+" -> 43 [] c = "," -> 44 [] c = "-" -> 45 [] c = "." -> 46
    [] c \in Digits -> 48 + DigitVal(c)
    [] c = ":" -> 58 [] c = "E" -> 69 [] c = "[" -> 91 [] c = "\\" -> 92
    [] c = "]" -> 93
    [] c = "a" -> 97 [] c = "b" -> 98 [] c = "e" -> 101 [] c = "f" -> 102
    [] c = "k" -> 107 [] c = "l" -> 108 [] c = "n" -> 110 [] c = "r" -> 114 [] c = "s" -> 115
    [] c = "t" -> 116 [] c = "u" -> 117 [] c = "x" -> 120
    [] c = "{" -> 123 [] c = "}" -> 125

\* std::string::npos, the largest size_t: kept symbolic (it exceeds the
\* integers of the checker); the only arithmetic on it is npos + 1, which
\* wraps to 0 in size_t
npos == -1

\* size_t addition i + 1, where i may be npos
SizeInc(i) == IF i = npos THEN 0 ELSE i + 1

\* str[i] for i <= size(): the terminator is readable
CharAt(str, i) == IF i = Len(str) THEN NUL ELSE str[i + 1]

\* str.substr(pos, count) for pos <= size()
substr(str, pos, count) ==
  LET n == IF count = npos \/ pos + count > Len(str) THEN Len(str) - pos ELSE count
  IN  SubSeq(str, pos + 1, pos + n)

\* str.find(c, start): the first position >= start holding c, or npos
find(str, c, start) ==
  LET hits == {i \in start..(Len(str) - 1) : str[i + 1] = c}
  IN  IF hits = {} THEN npos ELSE CHOOSE i \in hits : \A k \in hits : i <= k

\* operator< of std::string: lexicographic on bytes
RECURSIVE StrLess(_, _)
StrLess(s, t) ==
  IF t = <<>> THEN FALSE
  ELSE IF s = <<>> THEN TRUE
  ELSE IF CharCode(Head(s)) # CharCode(Head(t))
       THEN CharCode(Head(s)) < CharCode(Head(t))
       ELSE StrLess(Tail(s), Tail(t))

-----------------------------------------------------------------------------
(* class json: Type, Value and the constructors *)

\* a double is kept as sign, decimal mantissa and decimal exponent with the
\* mantissa free of trailing zeros: (-1)^neg * m * 10^e
Float0 == [neg |-> FALSE, m |-> 0, e |-> 0]

\* the std::variant holding alternative idx, every other field at rest
Variant(idx, b, i, f, s, a, o) ==
  [index |-> idx, b |-> b, i |-> i, f |-> f, s |-> s, a |-> a, o |-> o]

null_data == Variant("_null", FALSE, 0, Float0, <<>>, <<>>, <<>>)
bool_data(b) == Variant("_bool", b, 0, Float0, <<>>, <<>>, <<>>)
int_data(i) == Variant("_int", FALSE, i, Float0, <<>>, <<>>, <<>>)
float_data(f) == Variant("_float", FALSE, 0, f, <<>>, <<>>, <<>>)
string_data(s) == Variant("_string", FALSE, 0, Float0, s, <<>>, <<>>)
array_data(a) == Variant("_array", FALSE, 0, Float0, <<>>, a, <<>>)
object_data(o) == Variant("_object", FALSE, 0, Float0, <<>>, <<>>, o)

json_null == [type |-> "_null", data |-> null_data]
json_bool(b) == [type |-> "_bool", data |-> bool_data(b)]
json_int(i) == [type |-> "_int", data |-> int_data(i)]
json_float(f) == [type |-> "_float", data |-> float_data(f)]
json_string(s) == [type |-> "_string", data |-> string_data(s)]
json_array(a) == [type |-> "_array", data |-> array_data(a)]
json_object(o) == [type |-> "_object", data |-> object_data(o)]

json_init == json_object(<<>>)

\* a get_type_as_string that has one name for both number tags
get_type_as_string_number(v) ==
  CASE v.type = "_null" -> "null" [] v.type = "_bool" -> "bool"
    [] v.type = "_int" -> "number" [] v.type = "_float" -> "number"
    [] v.type = "_string" -> "string" [] v.type = "_array" -> "array"
    [] v.type = "_object" -> "object" [] OTHER -> "Unknown type"

get_type(v) == v.type

get_type_as_string(v) ==
  CASE v.type = "_null" -> "null" [] v.type = "_bool" -> "bool"
    [] v.type = "_int" -> "int" [] v.type = "_float" -> "float"
    [] v.type = "_string" -> "string" [] v.type = "_array" -> "array"
    [] v.type = "_object" -> "object" [] OTHER -> "Unknown type"

\* operator== of double
FloatEq(x, y) == (x.m = 0 /\ y.m = 0) \/ x = y

\* operator== of json: the tags agree and the variants agree, a variant
\* comparing its index and then the value of the alternative held
RECURSIVE JsonEq(_, _)
JsonEq(lhs, rhs) ==
  /\ lhs.type = rhs.type
  /\ lhs.data.index = rhs.data.index
  /\ CASE lhs.data.index = "_null" -> TRUE
        [] lhs.data.index = "_bool" -> lhs.data.b = rhs.data.b
        [] lhs.data.index = "_int" -> lhs.data.i = rhs.data.i
        [] lhs.data.index = "_float" -> FloatEq(lhs.data.f, rhs.data.f)
        [] lhs.data.index = "_string" -> lhs.data.s = rhs.data.s
        [] lhs.data.index = "_array" ->
             /\ Len(lhs.data.a) = Len(rhs.data.a)
             /\ \A k \in 1..Len(lhs.data.a) : JsonEq(lhs.data.a[k], rhs.data.a[k])
        [] lhs.data.index = "_object" ->
             /\ DOMAIN lhs.data.o = DOMAIN rhs.data.o
             /\ \A k \in DOMAIN lhs.data.o : JsonEq(lhs.data.o[k], rhs.data.o[k])

-----------------------------------------------------------------------------
(* dump *)

\* the keys of a map listed from the greatest to the least
RECURSIVE SortedKeysDescending(_)
SortedKeysDescending(ks) ==
  IF ks = {} THEN <<>>
  ELSE LET greatest == CHOOSE k \in ks : \A q \in ks \ {k} : StrLess(q, k)
       IN  <<greatest>> \o SortedKeysDescending(ks \ {greatest})

\* the keys of a std::map in iteration order (ascending)
RECURSIVE SortedKeys(_)
SortedKeys(ks) ==
  IF ks = {} THEN <<>>
  ELSE LET least == CHOOSE k \in ks : \A q \in ks \ {k} : StrLess(k, q)
       IN  <<least>> \o SortedKeys(ks \ {least})

RECURSIVE Decimal(_)
Decimal(n) ==
  IF n < 10 THEN <<DigitChar(n)>> ELSE Decimal(n \div 10) \o <<DigitChar(n % 10)>>

\* a to_string that drops the sign
to_string_unsigned(i) == Decimal(IF i < 0 THEN -i ELSE i)

\* std::to_string(long long)
to_string_int(i) == IF i < 0 THEN <<"-">> \o Decimal(-i) ELSE Decimal(i)

RECURSIVE Pow10(_)
Pow10(k) == IF k = 0 THEN 1 ELSE 10 * Pow10(k - 1)

RECURSIVE ZeroPad(_, _)
ZeroPad(s, width) == IF Len(s) >= width THEN s ELSE ZeroPad(<<"0">> \o s, width)

\* std::to_string(double): printf "%f", six fractional digits, the value
\* rounded to nearest at the sixth digit
to_string_float(f) ==
  LET scaled == IF f.e >= -6 THEN f.m * Pow10(f.e + 6)
                ELSE LET p == Pow10(-(f.e + 6))
                         q == f.m \div p
                         r == f.m % p
                     IN  IF 2 * r > p \/ (2 * r = p /\ q % 2 = 1) THEN q + 1 ELSE q
  IN  (IF f.neg THEN <<"-">> ELSE <<>>)
        \o Decimal(scaled \div 1000000) \o <<".">>
        \o ZeroPad(Decimal(scaled % 1000000), 6)

RECURSIVE dump(_)
dump(v) ==
  CASE v.type = "_null" -> <<"n", "u", "l", "l">>
    [] v.type = "_bool" ->
         IF v.data.b THEN <<"t", "r", "u", "e">> ELSE <<"f", "a", "l", "s", "e">>
    [] v.type = "_int" -> to_string_int(v.data.i)
    [] v.type = "_float" -> to_string_float(v.data.f)
    [] v.type = "_string" -> <<"\"">> \o v.data.s \o <<"\"">>
    [] v.type = "_array" ->
         LET F[k \in 0..Len(v.data.a)] ==
               IF k = 0 THEN <<"[">>
               ELSE F[k - 1] \o dump(v.data.a[k])
                      \o (IF k # Len(v.data.a) THEN <<",", " ">> ELSE <<>>)
         IN  F[Len(v.data.a)] \o <<"]">>
    [] v.type = "_object" ->
         LET ks == SortedKeys(DOMAIN v.data.o)
             F[k \in 0..Len(ks)] ==
               IF k = 0 THEN <<"{">>
               ELSE F[k - 1] \o <<"\"">> \o ks[k] \o <<"\"", ":", " ">>
                      \o dump(v.data.o[ks[k]])
                      \o (IF k # Len(ks) THEN <<",", " ">> ELSE <<>>)
         IN  F[Len(ks)] \o <<"}">>
    [] OTHER -> <<"U", "n", "k", "n", "o", "w", "n", " ", "t", "y", "p", "e">>

-----------------------------------------------------------------------------
(* The parser.  A call returns a record: kind "ok" with the value and the   *)
(* cursor, kind "throw" with the exception (what names the function that   *)
(* threw it, pos the position its message carries, at the cursor where the *)
(* failure was detected), kind "overflow" when the recursion exhausts the  *)
(* stack, kind "ub" when a character beyond the terminator is read.        *)
(* index is the cursor, passed by reference in the code; it keeps its      *)
(* value when an exception unwinds.                                        *)

Ok(val, index) ==
  [kind |-> "ok", val |-> val, index |-> index, what |-> "", pos |-> 0, at |-> 0]

Throw(what, index) ==
  [kind |-> "throw", val |-> json_null, index |-> index, what |-> what,
   pos |-> npos, at |-> index]

Overflow(index) ==
  [kind |-> "overflow", val |-> json_null, index |-> index, what |-> "",
   pos |-> 0, at |-> 0]

OutOfBounds(index) ==
  [kind |-> "ub", val |-> json_null, index |-> index, what |-> "",
   pos |-> 0, at |-> 0]

\* a catch (std::exception&) handler that throws a new runtime_error: the
\* cursor and the place of detection are as the failed call left them
Rethrow(r, what) == [r EXCEPT !.what = what]

\* a remove_whitespace that removes nothing
keep_whitespace(str) == str

remove_whitespace(str) == SelectSeq(str, LAMBDA c : c \notin Whitespace)

\* the longest run of digits of s starting at position p (1-based)
RECURSIVE DigitRun(_, _)
DigitRun(s, p) ==
  IF p <= Len(s) /\ isdigit(s[p]) THEN <<s[p]>> \o DigitRun(s, p + 1) ELSE <<>>

RECURSIVE DigitsValue(_)
DigitsValue(ds) ==
  IF ds = <<>> THEN 0 ELSE 10 * DigitsValue(SubSeq(ds, 1, Len(ds) - 1)) + DigitVal(ds[Len(ds)])

RECURSIVE StripZeros(_)
StripZeros(ds) == IF ds # <<>> /\ Head(ds) = "0" THEN StripZeros(Tail(ds)) ELSE ds

LLONG_MAX_DIGITS ==
  <<"9", "2", "2", "3", "3", "7", "2", "0", "3", "6", "8", "5", "4", "7", "7", "5", "8", "0", "7">>

\* the digit string ds (no leading zeros) exceeds the digit string lim
RECURSIVE DigitsGreater(_, _)
DigitsGreater(ds, lim) ==
  IF Len(ds) # Len(lim) THEN Len(ds) > Len(lim)
  ELSE IF ds = <<>> THEN FALSE
  ELSE IF Head(ds) # Head(lim) THEN DigitVal(Head(ds)) > DigitVal(Head(lim))
  ELSE DigitsGreater(Tail(ds), Tail(lim))

\* the long long with the sign neg and the digits sig (no leading zeros): a
\* number when it has at most nine digits, else its sign and digits
Int64(neg, sig) ==
  IF Len(sig) <= 9 THEN (IF neg THEN -DigitsValue(sig) ELSE DigitsValue(sig))
  ELSE [neg |-> neg, digits |-> sig]

\* a stoll that does not look at the range
stoll_unchecked(s) ==
  LET signed == s # <<>> /\ s[1] \in {"-", "+"}
      neg == s # <<>> /\ s[1] = "-"
      ds == DigitRun(s, IF signed THEN 2 ELSE 1)
      sig == StripZeros(ds)
  IN  IF ds = <<>> THEN [ok |-> FALSE, err |-> "invalid_argument", val |-> 0]
      ELSE [ok |-> TRUE, err |-> "", val |-> Int64(neg, sig)]

\* std::stoll(s): strtoll on the longest prefix that is an optionally signed
\* digit string; invalid_argument without digits, out_of_range beyond the
\* 64-bit signed range
stoll(s) ==
  LET signed == s # <<>> /\ s[1] \in {"-", "+"}
      neg == s # <<>> /\ s[1] = "-"
      ds == DigitRun(s, IF signed THEN 2 ELSE 1)
      sig == StripZeros(ds)
      \* the magnitude of LLONG_MIN is one more than LLONG_MAX
      beyond == DigitsGreater(sig, LLONG_MAX_DIGITS)
                  /\ ~(neg /\ sig = [LLONG_MAX_DIGITS EXCEPT ![19] = "8"])
  IN  IF ds = <<>> THEN [ok |-> FALSE, err |-> "invalid_argument", val |-> 0]
      ELSE IF beyond THEN [ok |-> FALSE, err |-> "out_of_range", val |-> 0]
      ELSE [ok |-> TRUE, err |-> "", val |-> Int64(neg, sig)]

RECURSIVE Normalize(_, _, _)
Normalize(neg, m, e) ==
  IF m = 0 THEN [neg |-> neg, m |-> 0, e |-> 0]
  ELSE IF m % 10 = 0 THEN Normalize(neg, m \div 10, e + 1)
  ELSE [neg |-> neg, m |-> m, e |-> e]

\* the largest and the smallest decimal exponent of a normal double
DBL_MAX_10_EXP == 308
DBL_MIN_10_EXP == -307

\* std::stod(s): strtod on the longest prefix of the form
\* [sign] digits [. digits] [(e|E) [sign] digits] with a digit in the
\* mantissa; invalid_argument without one, out_of_range when the result
\* overflows or underflows (ERANGE)
stod(s) ==
  LET signed == s # <<>> /\ s[1] \in {"-", "+"}
      neg == s # <<>> /\ s[1] = "-"
      p0 == IF signed THEN 2 ELSE 1
      ip == DigitRun(s, p0)
      p1 == p0 + Len(ip)
      dot == p1 <= Len(s) /\ s[p1] = "."
      fp == IF dot THEN DigitRun(s, p1 + 1) ELSE <<>>
      p2 == IF dot THEN p1 + 1 + Len(fp) ELSE p1
      hasE == p2 <= Len(s) /\ s[p2] \in {"e", "E"}
      esigned == hasE /\ p2 + 1 <= Len(s) /\ s[p2 + 1] \in {"-", "+"}
      eneg == esigned /\ s[p2 + 1] = "-"
      ed == IF hasE THEN DigitRun(s, IF esigned THEN p2 + 2 ELSE p2 + 1) ELSE <<>>
      ev == IF eneg THEN -DigitsValue(StripZeros(ed)) ELSE DigitsValue(StripZeros(ed))
      mant == StripZeros(ip \o fp)
      f == Normalize(neg, DigitsValue(mant), ev - Len(fp))
      \* the decimal exponent of the value in scientific notation
      order == Len(mant) + (ev - Len(fp)) - 1
  IN  IF ip \o fp = <<>> THEN [ok |-> FALSE, err |-> "invalid_argument", val |-> Float0]
      ELSE IF mant # <<>> /\ (order > DBL_MAX_10_EXP \/ order < DBL_MIN_10_EXP - 1)
        THEN [ok |-> FALSE, err |-> "out_of_range", val |-> Float0]
      ELSE [ok |-> TRUE, err |-> "", val |-> f]

\* a parse_null that compares and consumes the first three characters only
parse_null_prefix(str, index) ==
  IF substr(str, index, 3) = <<"n", "u", "l">>
    THEN Ok(json_null, index + 3)
    ELSE Throw("parse_null", index)

parse_null(str, index) ==
  IF substr(str, index, 4) = <<"n", "u", "l", "l">>
    THEN Ok(json_null, index + 4)
    ELSE Throw("parse_null", index)

parse_true(str, index) ==
  IF substr(str, index, 4) = <<"t", "r", "u", "e">>
    THEN Ok(json_bool(TRUE), index + 4)
    ELSE Throw("parse_true", index)

parse_false(str, index) ==
  IF substr(str, index, 5) = <<"f", "a", "l", "s", "e">>
    THEN Ok(json_bool(FALSE), index + 5)
    ELSE Throw("parse_false", index)

\* start <= size() always, so substr never throws and the handler is dead;
\* without a closing quote end is npos, the cursor becomes npos + 1 = 0 and
\* the rest of the text is the string
parse_string(str, index) ==
  LET start == index + 1
      end == find(str, "\"", start)
  IN  Ok(json_string(substr(str, start, IF end = npos THEN npos ELSE end - start)),
         SizeInc(end))

NumberChars == Digits \cup {".", "e", "E", "+", "-"}

\* the cursor after the scan loop of parse_number
RECURSIVE ScanNumber(_, _)
ScanNumber(str, index) ==
  IF CharAt(str, index) \in NumberChars THEN ScanNumber(str, index + 1) ELSE index

\* a parse_number that takes only '.' as the mark of a floating-point literal
parse_number_by_dot(str, index) ==
  LET start == index
      stop == ScanNumber(str, index)
      lit == substr(str, start, stop - start)
      has_dot == \E k \in 1..Len(lit) : lit[k] = "."
  IN  IF has_dot
        THEN LET d == stod(lit)
             IN  IF d.ok THEN Ok(json_float(d.val), stop)
                 ELSE Throw("parse_number", stop)
        ELSE LET n == stoll(lit)
             IN  IF n.ok THEN Ok(json_int(n.val), stop)
                 ELSE Throw("parse_number", stop)

parse_number(str, index) ==
  LET start == index
      stop == ScanNumber(str, index)
      lit == substr(str, start, stop - start)
      has_dot == \E k \in 1..Len(lit) : lit[k] = "."
      has_exp == \E k \in 1..Len(lit) : lit[k] \in {"e", "E"}
  IN  IF has_dot \/ has_exp
        THEN LET d == stod(lit)
             IN  IF d.ok THEN Ok(json_float(d.val), stop)
                 ELSE Throw("parse_number", stop)
        ELSE LET n == stoll(lit)
             IN  IF n.ok THEN Ok(json_int(n.val), stop)
                 ELSE Throw("parse_number", stop)

RECURSIVE parse_at(_, _, _)
RECURSIVE array_loop(_, _, _, _)
RECURSIVE object_loop(_, _, _, _)

\* the while loop of parse_array, arr and index being its locals
array_loop(str, index, arr, depth) ==
  IF CharAt(str, index) # "]"
    THEN LET r == parse_at(str, index, depth + 1)
         IN  IF r.kind # "ok" THEN r
             ELSE array_loop(str,
                             IF CharAt(str, r.index) = "," THEN r.index + 1 ELSE r.index,
                             Append(arr, r.val), depth)
    ELSE Ok(json_array(arr), index + 1)

parse_array(str, index, depth) ==
  LET r == array_loop(str, index + 1, <<>>, depth)
  IN  IF r.kind = "throw" THEN Rethrow(r, "parse_array") ELSE r

\* std::map::insert: the member is left as it is when key is present
MapInsert(o, key, value) ==
  [k \in DOMAIN o \cup {key} |-> IF k \in DOMAIN o THEN o[k] ELSE value]

\* obj[key] = value of std::map
MapPut(o, key, value) ==
  [k \in DOMAIN o \cup {key} |-> IF k = key THEN value ELSE o[k]]

\* a loop of parse_object that demands a ':' after each key
object_loop_strict(str, index, obj, depth) ==
  IF CharAt(str, index) # "}"
    THEN LET k == parse_at(str, index, depth + 1)
         IN  IF k.kind # "ok" THEN k
             ELSE IF k.val.data.index # "_string"
               THEN Throw("bad_variant_access", k.index)
             ELSE IF CharAt(str, k.index) # ":"
               THEN Throw("expected ':'", k.index)
             ELSE LET v == parse_at(str, SizeInc(k.index), depth + 1)
                  IN  IF v.kind # "ok" THEN v
                      ELSE object_loop(str,
                                       IF CharAt(str, v.index) = "," THEN v.index + 1
                                                                     ELSE v.index,
                                       MapPut(obj, k.val.data.s, v.val), depth)
    ELSE Ok(json_object(obj), index + 1)

\* the while loop of parse_object, obj and index being its locals
object_loop(str, index, obj, depth) ==
  IF CharAt(str, index) # "}"
    THEN LET k == parse_at(str, index, depth + 1)
         IN  IF k.kind # "ok" THEN k
             ELSE IF k.val.data.index # "_string"
               \* std::get<std::string> throws bad_variant_access
               THEN Throw("bad_variant_access", k.index)
             ELSE LET v == parse_at(str, SizeInc(k.index), depth + 1)
                  IN  IF v.kind # "ok" THEN v
                      ELSE object_loop(str,
                                       IF CharAt(str, v.index) = "," THEN v.index + 1
                                                                     ELSE v.index,
                                       MapPut(obj, k.val.data.s, v.val), depth)
    ELSE Ok(json_object(obj), index + 1)

parse_object(str, index, depth) ==
  LET r == object_loop(str, index + 1, <<>>, depth)
  IN  IF r.kind = "throw" THEN Rethrow(r, "parse_object") ELSE r

\* a handler whose message carries the cursor at which its call started
parse_catch_start(r, start) == [r EXCEPT !.pos = start]

\* what the handler of parse(str, index) throws for the exception r of a
\* call that started at cursor start: the message carries e.what() and the
\* cursor as it stands when the handler runs
parse_catch(r, start) == [r EXCEPT !.pos = r.index]

\* parse(const std::string&, size_t&), depth being the number of parse
\* frames on the stack
parse_at(str, index, depth) ==
  IF depth > StackLimit THEN Overflow(index)
  ELSE IF index > Len(str) THEN OutOfBounds(index)
  ELSE LET c == CharAt(str, index)
           r == CASE c = "n" -> parse_null(str, index)
                  [] c = "t" -> parse_true(str, index)
                  [] c = "f" -> parse_false(str, index)
                  [] c = "\"" -> parse_string(str, index)
                  [] c = "[" -> parse_array(str, index, depth)
                  [] c = "{" -> parse_object(str, index, depth)
                  [] isdigit(c) \/ c = "-" -> parse_number(str, index)
                  [] OTHER -> Throw("Unknown character", index)
       IN  IF r.kind = "throw" THEN parse_catch(r, index) ELSE r

\* parse(const std::string&)
parse(str) ==
  IF str = <<>> THEN Ok(json_null, 0)
  ELSE parse_at(remove_whitespace(str), 0, 1)

\* a make_json that goes to the cursor-level parse directly
make_json_cursor(str) == parse_at(remove_whitespace(str), 0, 1)

make_json(str) == parse(str)

-----------------------------------------------------------------------------
(* Accessors and mutators of class json.  A call returns a record: err is  *)
(* the message of the exception thrown ("" when none is), node the object  *)
(* after the call.                                                         *)

NotAnArray == "json is not an array"
NotAnObject == "json is not an object"
IndexOutOfRange == "index out of range"
IndexNegative == "index is negative"
\* what() of the std::out_of_range thrown by std::map::at
MapAt == "map::at"

\* the kinds of error of the library, by the exceptions that stand for them
TypeAccessError == {NotAnArray, NotAnObject}
IndexOutOfRangeError == {IndexOutOfRange, IndexNegative}
KeyNotFoundError == {MapAt}

\* a reference to a child: the member key of an object or the element idx
\* of an array; live tells that it refers into the object itself
KeyRef(key) == [isKey |-> TRUE, key |-> key, idx |-> 0, live |-> TRUE]
IndexRef(idx) == [isKey |-> FALSE, key |-> <<>>, idx |-> idx, live |-> TRUE]
NoRef == [isKey |-> FALSE, key |-> <<>>, idx |-> 0, live |-> FALSE]

Call(err, node, ref) == [err |-> err, node |-> node, ref |-> ref]

\* a mutable key access that looks the key up with at() and inserts nothing
subscript_key_at(v, key) ==
  IF v.type # "_object" THEN Call(NotAnObject, v, NoRef)
  ELSE IF key \notin DOMAIN v.data.o THEN Call(MapAt, v, NoRef)
  ELSE Call("", v, KeyRef(key))

\* json& operator[](const std::string& key): std::map::operator[] inserts a
\* default constructed json when key is absent
subscript_key(v, key) ==
  IF v.type # "_object" THEN Call(NotAnObject, v, NoRef)
  ELSE Call("",
            IF key \in DOMAIN v.data.o THEN v
            ELSE [v EXCEPT !.data.o = MapPut(v.data.o, key, json_null)],
            KeyRef(key))

\* a mutable index access that copies the vector and refers into the copy
subscript_size_t_copy(v, index) ==
  IF v.type # "_array" THEN Call(NotAnArray, v, NoRef)
  ELSE IF index >= Len(v.data.a) THEN Call(IndexOutOfRange, v, NoRef)
  ELSE Call("", v, [IndexRef(index) EXCEPT !.live = FALSE])

\* a mutable index access that empties the array before it reports an index
\* out of range
subscript_size_t_clear(v, index) ==
  IF v.type # "_array" THEN Call(NotAnArray, v, NoRef)
  ELSE IF index >= Len(v.data.a)
    THEN Call(IndexOutOfRange, [v EXCEPT !.data.a = <<>>], NoRef)
  ELSE Call("", v, IndexRef(index))

\* json& operator[](size_t index)
subscript_size_t(v, index) ==
  IF v.type # "_array" THEN Call(NotAnArray, v, NoRef)
  ELSE IF index >= Len(v.data.a) THEN Call(IndexOutOfRange, v, NoRef)
  ELSE Call("", v, IndexRef(index))

\* json& operator[](size_t index) of the older header: auto arr is a copy of
\* the vector, and the reference returned is to an element of that copy,
\* destroyed when the accessor returns
old_subscript_size_t(v, index) ==
  IF v.type # "_array" THEN Call(NotAnArray, v, NoRef)
  ELSE IF index >= Len(v.data.a) THEN Call(IndexOutOfRange, v, NoRef)
  ELSE Call("", v, [IndexRef(index) EXCEPT !.live = FALSE])

\* json& operator[](int index)
subscript_int(v, index) ==
  IF index < 0 THEN Call(IndexNegative, v, NoRef)
  ELSE subscript_size_t(v, index)

\* the child a reference of v refers to
Deref(v, ref) == IF ref.isKey THEN v.data.o[ref.key] ELSE v.data.a[ref.idx + 1]

\* v with the child behind ref replaced; a write through a reference that
\* is not live does not reach v
Store(v, ref, child) ==
  IF ~ref.live THEN v
  ELSE IF ref.isKey THEN [v EXCEPT !.data.o[ref.key] = child]
  ELSE [v EXCEPT !.data.a[ref.idx + 1] = child]

\* other after json(json&& other) or operator=(json&& other): type is kept
\* and data is a moved-from variant, which holds the same alternative in a
\* valid but unspecified state: a string, vector or map is left as it was
\* or emptied
moved_from(other, emptied) ==
  IF emptied
    THEN [other EXCEPT !.data.s = <<>>, !.data.a = <<>>, !.data.o = <<>>]
    ELSE other

\* a copy that keeps the storage of its source
copy_json_shared(other) == [shared |-> TRUE, v |-> other]

\* json(const json& other) and operator=(const json& other): type and data
\* are copied, and the copy of a std::variant that holds a std::vector or a
\* std::map copies every element, so the copy has storage of its own
copy_json(other) == [shared |-> FALSE, v |-> [type |-> other.type, data |-> other.data]]

\* a to_json that stores the value and leaves the tag as it was
to_json_data_only(v, value) == [type |-> v.type, data |-> value.data]

\* to_json(j, value) for the built-in types and operator=(const json&):
\* data and type of the target are replaced by those of the value
to_json(v, value) == [type |-> value.type, data |-> value.data]

\* a const key access that uses std::map::operator[] and so inserts
const_subscript_key_insert(v, key) ==
  IF v.type # "_object" THEN Call(NotAnObject, v, NoRef)
  ELSE Call("",
            IF key \in DOMAIN v.data.o THEN v
            ELSE [v EXCEPT !.data.o = MapPut(v.data.o, key, json_null)],
            KeyRef(key))

\* json operator[](const std::string& key) const
const_subscript_key(v, key) ==
  IF v.type # "_object" THEN Call(NotAnObject, v, NoRef)
  ELSE IF key \notin DOMAIN v.data.o THEN Call(MapAt, v, NoRef)
  ELSE Call("", v, KeyRef(key))

\* a const index access whose range check throws the message of the tag check
const_subscript_size_t_message(v, index) ==
  IF v.type # "_array" THEN Call(NotAnArray, v, NoRef)
  ELSE IF index >= Len(v.data.a) THEN Call(NotAnArray, v, NoRef)
  ELSE Call("", v, IndexRef(index))

\* json operator[](size_t index) const
const_subscript_size_t(v, index) ==
  IF v.type # "_array" THEN Call(NotAnArray, v, NoRef)
  ELSE IF index >= Len(v.data.a) THEN Call(IndexOutOfRange, v, NoRef)
  ELSE Call("", v, IndexRef(index))

\* json operator[](int index) const
const_subscript_int(v, index) ==
  IF index < 0 THEN Call(IndexNegative, v, NoRef)
  ELSE const_subscript_size_t(v, index)

push(v, value) ==
  IF v.type = "_array"
    THEN Call("", [v EXCEPT !.data.a = Append(v.data.a, value)], NoRef)
    ELSE Call(NotAnArray, v, NoRef)

\* std::vector::pop_back on an empty vector is undefined behaviour
PopEmpty == "pop_back on an empty vector"

\* a pop that erases the first element
pop_front(v) ==
  IF v.type = "_array"
    THEN IF v.data.a = <<>> THEN Call(PopEmpty, v, NoRef)
         ELSE Call("", [v EXCEPT !.data.a = Tail(v.data.a)], NoRef)
    ELSE Call(NotAnArray, v, NoRef)

pop(v) ==
  IF v.type = "_array"
    THEN IF v.data.a = <<>> THEN Call(PopEmpty, v, NoRef)
         ELSE Call("", [v EXCEPT !.data.a = SubSeq(v.data.a, 1, Len(v.data.a) - 1)], NoRef)
    ELSE Call(NotAnArray, v, NoRef)

\* a remove that returns silently on a value that is not an object
remove_unchecked(v, key) ==
  IF v.type = "_object"
    THEN Call("", [v EXCEPT !.data.o = [k \in DOMAIN v.data.o \ {key} |-> v.data.o[k]]],
              NoRef)
    ELSE Call("", v, NoRef)

\* a remove that erases every member
remove_clear(v, key) ==
  IF v.type = "_object"
    THEN Call("", [v EXCEPT !.data.o = <<>>], NoRef)
    ELSE Call(NotAnObject, v, NoRef)

remove(v, key) ==
  IF v.type = "_object"
    THEN Call("", [v EXCEPT !.data.o = [k \in DOMAIN v.data.o \ {key} |-> v.data.o[k]]],
              NoRef)
    ELSE Call(NotAnObject, v, NoRef)

to_array(v) ==
  IF v.type = "_array" THEN Call("", v, NoRef) ELSE Call(NotAnArray, v, NoRef)

to_map(v) ==
  IF v.type = "_object" THEN Call("", v, NoRef) ELSE Call(NotAnObject, v, NoRef)

\* the built-in target types of get<T>() and get_to<T>(): a value of one of
\* them is kept as the variant that holds it.  The int and float overloads
\* are the int64_t and double ones followed by a narrowing static_cast.
NativeTypes == {"_null", "bool", "int64_t", "double", "string", "_array", "_object"}

\* the tag a json holding a T has
TagOf(T) ==
  CASE T = "_null" -> "_null" [] T = "bool" -> "_bool" [] T = "int64_t" -> "_int"
    [] T = "double" -> "_float" [] T = "string" -> "_string"
    [] T = "_array" -> "_array" [] T = "_object" -> "_object"

\* T(): the value of a value-initialised T
DefaultOf(T) ==
  CASE T = "_null" -> null_data [] T = "bool" -> bool_data(FALSE)
    [] T = "int64_t" -> int_data(0) [] T = "double" -> float_data(Float0)
    [] T = "string" -> string_data(<<>>)
    [] T = "_array" -> array_data(<<>>) [] T = "_object" -> object_data(<<>>)

\* static_cast<int64_t>(double): the fraction is discarded (the values of
\* the model are within the range of int64_t)
double_to_int64(f) ==
  LET mag == IF f.e >= 0 THEN f.m * Pow10(f.e) ELSE f.m \div Pow10(-f.e)
  IN  IF f.neg THEN -mag ELSE mag

\* static_cast<double>(int64_t), exact for the values of the model
int64_to_double(i) == Normalize(i < 0, IF i < 0 THEN -i ELSE i, 0)

\* from_json(const json& j, T& value): what value holds after the call
from_json(v, T, value) ==
  CASE T = "_null" -> null_data
    [] T = "bool" -> IF v.type = "_bool" THEN bool_data(v.data.b) ELSE value
    [] T = "int64_t" ->
         IF v.type = "_int" THEN int_data(v.data.i)
         ELSE IF v.type = "_float" THEN int_data(double_to_int64(v.data.f))
         ELSE value
    [] T = "double" ->
         IF v.type = "_float" THEN float_data(v.data.f)
         ELSE IF v.type = "_int" THEN float_data(int64_to_double(v.data.i))
         ELSE value
    [] T = "string" -> IF v.type = "_string" THEN string_data(v.data.s) ELSE value
    [] T = "_array" -> IF v.type = "_array" THEN array_data(v.data.a) ELSE value
    [] T = "_object" -> IF v.type = "_object" THEN object_data(v.data.o) ELSE value

\* T result; of get<T>(): a class type is default constructed, a scalar is
\* left uninitialised and holds whatever the stack held
default_initialized(T, garbage) ==
  IF T \in {"_null", "string", "_array", "_object"} THEN DefaultOf(T) ELSE garbage

\* get<T>(), garbage being the content of the stack slot of result
get(v, T, garbage) == from_json(v, T, default_initialized(T, garbage))

\* get_to<T>(value)
get_to(v, T, value) == from_json(v, T, value)

-----------------------------------------------------------------------------
(* The tree held by j and the places in it a chain of mutable operator[]   *)
(* reaches                                                                 *)

RECURSIVE Size(_)
Size(v) ==
  LET A[k \in 0..Len(v.data.a)] == IF k = 0 THEN 0 ELSE A[k - 1] + Size(v.data.a[k])
      ks == SortedKeys(DOMAIN v.data.o)
      O[k \in 0..Len(ks)] == IF k = 0 THEN 0 ELSE O[k - 1] + Size(v.data.o[ks[k]])
  IN  1 + (IF v.data.index = "_array" THEN A[Len(v.data.a)] ELSE 0)
        + (IF v.data.index = "_object" THEN O[Len(ks)] ELSE 0)

RECURSIVE Paths(_)
Paths(v) ==
  {<<>>}
    \cup (IF v.data.index = "_array"
            THEN UNION {{<<IndexRef(k - 1)>> \o q : q \in Paths(v.data.a[k])} :
                          k \in 1..Len(v.data.a)}
            ELSE {})
    \cup (IF v.data.index = "_object"
            THEN UNION {{<<KeyRef(k)>> \o q : q \in Paths(v.data.o[k])} :
                          k \in DOMAIN v.data.o}
            ELSE {})

RECURSIVE NodeAt(_, _)
NodeAt(v, path) ==
  IF path = <<>> THEN v ELSE NodeAt(Deref(v, Head(path)), Tail(path))

RECURSIVE ReplaceAt(_, _, _)
ReplaceAt(v, path, node) ==
  IF path = <<>> THEN node
  ELSE Store(v, Head(path), ReplaceAt(Deref(v, Head(path)), Tail(path), node))

-----------------------------------------------------------------------------
(* The program: a json j and the calls made on it and on its descendants.  *)
(* pre is j before the last call, op the call, outcome "" or the message   *)
(* of the exception it threw, ret what it returned; text and res are the   *)
(* argument and the result of the last parse, written the pieces the text  *)
(* was put together from.                                                  *)

\* the values of the built-in types assigned, pushed and stored
Values ==
  << json_null, json_bool(TRUE), json_bool(FALSE), json_int(-20),
     json_float([neg |-> FALSE, m |-> 15, e |-> -1]),
     json_string(<<"a">>), json_string(<<" ", "\"">>),
     json_array(<<>>), json_object(<<>>) >>

Keys == {<<"a">>, <<"b">>}

NoOp == [name |-> "", path |-> <<>>, key |-> <<>>, idx |-> 0, x |-> json_null]

Op(name, path, key, idx, x) ==
  [name |-> name, path |-> path, key |-> key, idx |-> idx, x |-> x]

\* shared tells that the json returned has its storage in common with the
\* json it was made from
NoRet ==
  [kind |-> "none", v |-> json_null, a |-> <<>>, o |-> <<>>, s |-> <<>>, shared |-> FALSE]
RetJson(v) ==
  [kind |-> "json", v |-> v, a |-> <<>>, o |-> <<>>, s |-> <<>>, shared |-> FALSE]
RetArray(a) ==
  [kind |-> "array", v |-> json_null, a |-> a, o |-> <<>>, s |-> <<>>, shared |-> FALSE]
RetMap(o) ==
  [kind |-> "map", v |-> json_null, a |-> <<>>, o |-> o, s |-> <<>>, shared |-> FALSE]
RetString(s) ==
  [kind |-> "string", v |-> json_null, a |-> <<>>, o |-> <<>>, s |-> s, shared |-> FALSE]

\* a value of the built-in type T, held as its variant
Native(T, d) == [type |-> T, data |-> d]
RetNative(T, d) ==
  [kind |-> "native", v |-> Native(T, d), a |-> <<>>, o |-> <<>>, s |-> <<>>,
   shared |-> FALSE]

\* values a variable of type T holds before get_to, and values an
\* uninitialised T can show
NativeSamples(T) ==
  CASE T = "_null" -> {null_data}
    [] T = "bool" -> {bool_data(FALSE), bool_data(TRUE)}
    [] T = "int64_t" -> {int_data(0), int_data(7)}
    [] T = "double" -> {float_data(Float0), float_data([neg |-> FALSE, m |-> 25, e |-> -1])}
    [] T = "string" -> {string_data(<<>>), string_data(<<"a">>)}
    [] T = "_array" -> {array_data(<<>>), array_data(<<json_null>>)}
    [] T = "_object" -> {object_data(<<>>), object_data(MapPut(<<>>, <<"a">>, json_null))}

\* what a process shows after undefined behaviour: it is killed, or it
\* goes on with the object in no valid state
Crashed == "crash"
Corrupted == "corrupt"
Alive == outcome \notin {Crashed, Corrupted}

\* the outcomes a parse can show when it reads beyond the terminator: the
\* byte is one no value starts with, the process is killed, or the bytes
\* beyond the text are parsed as if they belonged to it
Outcomes(r) ==
  IF r.kind # "ub" THEN {r}
  ELSE { [parse_catch(Throw("Unknown character", r.index), r.index)
            EXCEPT !.what = "parse_object"],
         [r EXCEPT !.kind = "crash"],
         [r EXCEPT !.kind = "garbage"] }

NoResult == [Ok(json_null, 0) EXCEPT !.kind = "none"]

Init ==
  /\ j = json_null
  /\ pre = json_null
  /\ op = NoOp
  /\ outcome = ""
  /\ ret = NoRet
  /\ text = <<>>
  /\ res = NoResult
  /\ written = <<>>

\* no call is under way: the caller is between two statements
Idle == op.name = ""

\* the bookkeeping common to the calls
Record(o, before) ==
  /\ Idle
  /\ pre' = before
  /\ op' = o
  /\ Size(j') <= MaxNodes

\* node = value, for a value of a built-in type
Assign(path, x) ==
  /\ j' = ReplaceAt(j, path, to_json(NodeAt(j, path), x))
  /\ outcome' = ""
  /\ ret' = NoRet
  /\ Record(Op("assign", path, <<>>, 0, x), j)
  /\ UNCHANGED <<text, res, written>>

\* node[key];
SubscriptKey(path, key) ==
  LET c == subscript_key(NodeAt(j, path), key)
  IN  /\ j' = ReplaceAt(j, path, c.node)
      /\ outcome' = c.err
      /\ ret' = NoRet
      /\ Record(Op("subscript_key", path, key, 0, json_null), j)
      /\ UNCHANGED <<text, res, written>>

\* node[key] = x;
SubscriptKeyAssign(path, key, x) ==
  LET c == subscript_key(NodeAt(j, path), key)
      after == IF c.err # "" THEN c.node
               ELSE Store(c.node, c.ref, to_json(Deref(c.node, c.ref), x))
  IN  /\ j' = ReplaceAt(j, path, after)
      /\ outcome' = c.err
      /\ ret' = NoRet
      /\ Record(Op("subscript_key_assign", path, key, 0, x), j)
      /\ UNCHANGED <<text, res, written>>

\* node[index] = x; with an int index
SubscriptIndexAssign(path, index, x) ==
  LET c == subscript_int(NodeAt(j, path), index)
      after == IF c.err # "" THEN c.node
               ELSE Store(c.node, c.ref, to_json(Deref(c.node, c.ref), x))
  IN  /\ j' = ReplaceAt(j, path, after)
      /\ outcome' = c.err
      /\ ret' = NoRet
      /\ Record(Op("subscript_index_assign", path, <<>>, index, x), j)
      /\ UNCHANGED <<text, res, written>>

\* node[key] on a const json
ConstSubscriptKey(path, key) ==
  LET c == const_subscript_key(NodeAt(j, path), key)
  IN  /\ j' = ReplaceAt(j, path, c.node)
      /\ outcome' = c.err
      /\ ret' = IF c.err = "" THEN RetJson(Deref(c.node, c.ref)) ELSE NoRet
      /\ Record(Op("const_subscript_key", path, key, 0, json_null), j)
      /\ UNCHANGED <<text, res, written>>

\* node[index] on a const json, with an int index
ConstSubscriptIndex(path, index) ==
  LET c == const_subscript_int(NodeAt(j, path), index)
  IN  /\ j' = ReplaceAt(j, path, c.node)
      /\ outcome' = c.err
      /\ ret' = IF c.err = "" THEN RetJson(Deref(c.node, c.ref)) ELSE NoRet
      /\ Record(Op("const_subscript_index", path, <<>>, index, json_null), j)
      /\ UNCHANGED <<text, res, written>>

Push(path, x) ==
  LET c == push(NodeAt(j, path), x)
  IN  /\ j' = ReplaceAt(j, path, c.node)
      /\ outcome' = c.err
      /\ ret' = NoRet
      /\ Record(Op("push", path, <<>>, 0, x), j)
      /\ UNCHANGED <<text, res, written>>

\* pop_back on an empty vector is undefined: the process is killed, or the
\* call returns and leaves the vector corrupted
Pop(path) ==
  LET c == pop(NodeAt(j, path))
  IN  /\ j' = ReplaceAt(j, path, c.node)
      /\ outcome' \in (IF c.err = PopEmpty THEN {Crashed, Corrupted} ELSE {c.err})
      /\ ret' = NoRet
      /\ Record(Op("pop", path, <<>>, 0, json_null), j)
      /\ UNCHANGED <<text, res, written>>

\* node.push(x); node.pop(); the pop of the node that was just pushed to
PopAfterPush ==
  LET c == pop(NodeAt(j, op.path))
  IN  /\ op.name = "push"
      /\ outcome = ""
      /\ j' = ReplaceAt(j, op.path, c.node)
      /\ outcome' = c.err
      /\ op' = [op EXCEPT !.name = "push_pop"]
      /\ UNCHANGED <<pre, ret, text, res, written>>

Remove(path, key) ==
  LET c == remove(NodeAt(j, path), key)
  IN  /\ j' = ReplaceAt(j, path, c.node)
      /\ outcome' = c.err
      /\ ret' = NoRet
      /\ Record(Op("remove", path, key, 0, json_null), j)
      /\ UNCHANGED <<text, res, written>>

ToArray(path) ==
  LET c == to_array(NodeAt(j, path))
  IN  /\ j' = ReplaceAt(j, path, c.node)
      /\ outcome' = c.err
      /\ ret' = IF c.err = "" THEN RetArray(c.node.data.a) ELSE NoRet
      /\ Record(Op("to_array", path, <<>>, 0, json_null), j)
      /\ UNCHANGED <<text, res, written>>

ToMap(path) ==
  LET c == to_map(NodeAt(j, path))
  IN  /\ j' = ReplaceAt(j, path, c.node)
      /\ outcome' = c.err
      /\ ret' = IF c.err = "" THEN RetMap(c.node.data.o) ELSE NoRet
      /\ Record(Op("to_map", path, <<>>, 0, json_null), j)
      /\ UNCHANGED <<text, res, written>>

\* json k(std::move(node)); or k = std::move(node);
Move(path, emptied) ==
  /\ j' = ReplaceAt(j, path, moved_from(NodeAt(j, path), emptied))
  /\ ret' = RetJson(copy_json(NodeAt(j, path)).v)
  /\ outcome' = ""
  /\ Record(Op("move", path, <<>>, 0, json_null), j)
  /\ UNCHANGED <<text, res, written>>

\* the json constructed from a value of the built-in type T
construct(T, value) ==
  CASE T = "_null" -> json_null
    [] T = "bool" -> json_bool(value.b)
    [] T = "int64_t" -> json_int(value.i)
    [] T = "double" -> json_float(value.f)
    [] T = "string" -> json_string(value.s)
    [] T = "_array" -> json_array(value.a)
    [] T = "_object" -> json_object(value.o)

\* json j(value); j.get_type(); j.get_type_as_string();
Construct(T, value) ==
  /\ j' = construct(T, value)
  /\ ret' = RetString(<<get_type_as_string(j')>>)
  /\ outcome' = ""
  /\ Record(Op("construct", <<>>, <<>>, 0, Native(T, value)), j)
  /\ UNCHANGED <<text, res, written>>

\* json j = json_init(); j.get_type_as_string();
JsonInit ==
  /\ j' = json_init
  /\ ret' = RetString(<<get_type_as_string(j')>>)
  /\ outcome' = ""
  /\ Record(Op("json_init", <<>>, <<>>, 0, json_null), j)
  /\ UNCHANGED <<text, res, written>>

\* node.get<T>()
Get(path, T, garbage) ==
  /\ j' = j
  /\ ret' = RetNative(T, get(NodeAt(j, path), T, garbage))
  /\ outcome' = ""
  /\ Record(Op("get", path, <<>>, 0, Native(T, garbage)), j)
  /\ UNCHANGED <<text, res, written>>

\* T value = ...; node.get_to(value);
GetTo(path, T, value) ==
  /\ j' = j
  /\ ret' = RetNative(T, get_to(NodeAt(j, path), T, value))
  /\ outcome' = ""
  /\ Record(Op("get_to", path, <<>>, 0, Native(T, value)), j)
  /\ UNCHANGED <<text, res, written>>

\* parse(j.dump())
RoundTrip ==
  /\ Idle
  /\ text' = dump(j)
  /\ res' \in Outcomes(parse(text'))
  /\ pre' = j
  /\ op' = Op("roundtrip", <<>>, <<>>, 0, json_null)
  /\ outcome' = ""
  /\ ret' = NoRet
  /\ UNCHANGED <<j, written>>

\* the caller has looked at the outcome of the call and goes on
Continue ==
  /\ ~Idle
  /\ Alive
  /\ pre' = json_null
  /\ op' = NoOp
  /\ outcome' = ""
  /\ ret' = NoRet
  /\ text' = <<>>
  /\ res' = NoResult
  /\ UNCHANGED <<j, written>>

\* the calls the program can make next, on j or on a descendant of j
CallAssign == Idle /\ \E path \in Paths(j), k \in 1..Len(Values) : Assign(path, Values[k])

CallSubscriptKey == Idle /\ \E path \in Paths(j), key \in Keys : SubscriptKey(path, key)

CallSubscriptKeyAssign ==
  Idle /\ \E path \in Paths(j), key \in Keys, k \in 1..Len(Values) :
            SubscriptKeyAssign(path, key, Values[k])

CallSubscriptIndexAssign ==
  Idle /\ \E path \in Paths(j), index \in -1..(MaxNodes - 1), k \in 1..Len(Values) :
            SubscriptIndexAssign(path, index, Values[k])

CallConstSubscriptKey ==
  Idle /\ \E path \in Paths(j), key \in Keys : ConstSubscriptKey(path, key)

CallConstSubscriptIndex ==
  Idle /\ \E path \in Paths(j), index \in -1..(MaxNodes - 1) :
            ConstSubscriptIndex(path, index)

CallPush == Idle /\ \E path \in Paths(j), k \in 1..Len(Values) : Push(path, Values[k])

CallPop == Idle /\ \E path \in Paths(j) : Pop(path)

CallRemove == Idle /\ \E path \in Paths(j), key \in Keys : Remove(path, key)

CallToArray == Idle /\ \E path \in Paths(j) : ToArray(path)

CallToMap == Idle /\ \E path \in Paths(j) : ToMap(path)

CallMove == Idle /\ \E path \in Paths(j), emptied \in BOOLEAN : Move(path, emptied)

CallConstruct ==
  Idle /\ \E T \in NativeTypes : \E value \in NativeSamples(T) : Construct(T, value)

CallGet ==
  Idle /\ \E path \in Paths(j), T \in NativeTypes :
            \E garbage \in NativeSamples(T) : Get(path, T, garbage)

CallGetTo ==
  Idle /\ \E path \in Paths(j), T \in NativeTypes :
            \E value \in NativeSamples(T) : GetTo(path, T, value)

Next ==
  \/ CallAssign
  \/ CallSubscriptKey
  \/ CallSubscriptKeyAssign
  \/ CallSubscriptIndexAssign
  \/ CallConstSubscriptKey
  \/ CallConstSubscriptIndex
  \/ CallPush
  \/ CallPop
  \/ PopAfterPush
  \/ CallRemove
  \/ CallToArray
  \/ CallToMap
  \/ CallGet
  \/ CallGetTo
  \/ CallConstruct
  \/ JsonInit
  \/ CallMove
  \/ RoundTrip
  \/ Continue

Spec == Init /\ [][Next]_vars

-----------------------------------------------------------------------------
(* Copies: j is the source, ret the copy made of the node at op.path, pre   *)
(* the source as it was when the copy was made                             *)

\* the values the source and the copy are built and changed with
CopyValues == {json_int(-20), json_array(<<>>), json_object(<<>>)}

\* the ways a copy of a node is made: json k(node); k = node;
\* a.push(node); node.to_array(); node.to_map(); parent[...] on a const json
CopyCalls == {"copy_construct", "copy_assign", "push_copy", "to_array_copy",
              "to_map_copy", "const_subscript_copy"}

CopyBuildAssign == Idle /\ \E path \in Paths(j), x \in CopyValues : Assign(path, x)

CopyBuildPush == Idle /\ \E path \in Paths(j), x \in CopyValues : Push(path, x)

CopyBuildKey ==
  Idle /\ \E path \in Paths(j), key \in Keys, x \in CopyValues :
            SubscriptKeyAssign(path, key, x)

\* a copy of the node at path is made
Copy(path, how) ==
  LET node == NodeAt(j, path)
      c == copy_json(node)
  IN  /\ Idle
      /\ how = "to_array_copy" => node.type = "_array"
      /\ how = "to_map_copy" => node.type = "_object"
      /\ how = "const_subscript_copy" => path # <<>>
      /\ ret' = [RetJson(c.v) EXCEPT !.shared = c.shared]
      /\ pre' = j
      /\ op' = Op(how, path, <<>>, 0, json_null)
      /\ outcome' = ""
      /\ UNCHANGED <<j, text, res, written>>

CallCopy == \E path \in Paths(j), how \in CopyCalls : Copy(path, how)

\* after the copy, the source is changed: node = x at any depth of j
MutateSource(path, x) ==
  /\ op.name \in CopyCalls \cup {"source_mutated"}
  /\ j' = ReplaceAt(j, path, to_json(NodeAt(j, path), x))
  /\ Size(j') <= MaxNodes
  /\ ret' = IF ret.shared /\ op.path \in Paths(j')
               THEN [ret EXCEPT !.v = NodeAt(j', op.path)] ELSE ret
  /\ op' = [op EXCEPT !.name = "source_mutated"]
  /\ UNCHANGED <<pre, outcome, text, res, written>>

CallMutateSource == \E path \in Paths(j), x \in CopyValues : MutateSource(path, x)

\* after the copy, the copy is changed: node = x at any depth of the copy
MutateCopy(path, x) ==
  LET changed == ReplaceAt(ret.v, path, to_json(NodeAt(ret.v, path), x))
  IN  /\ op.name \in CopyCalls \cup {"copy_mutated"}
      /\ Size(changed) <= MaxNodes
      /\ ret' = [ret EXCEPT !.v = changed]
      /\ j' = IF ret.shared /\ op.path \in Paths(j)
                 THEN ReplaceAt(j, op.path, changed) ELSE j
      /\ op' = [op EXCEPT !.name = "copy_mutated"]
      /\ UNCHANGED <<pre, outcome, text, res, written>>

CallMutateCopy ==
  /\ op.name \in CopyCalls \cup {"copy_mutated"}
  /\ \E path \in Paths(ret.v), x \in CopyValues : MutateCopy(path, x)

NextCopy ==
  \/ CopyBuildAssign
  \/ CopyBuildPush
  \/ CopyBuildKey
  \/ Continue
  \/ CallCopy
  \/ CallMutateSource
  \/ CallMutateCopy

SpecCopy == Init /\ [][NextCopy]_vars

-----------------------------------------------------------------------------
(* The older header: arrays indexed with its operator[](size_t) *)

OldElements == {json_null, json_int(1), json_string(<<"a">>)}

\* the arrays of up to two elements
OldArrays ==
  {json_array(<<>>)}
    \cup {json_array(<<a>>) : a \in OldElements}
    \cup {json_array(<<a, b>>) : a \in OldElements, b \in OldElements}

\* j = an array
OldAssign == Idle /\ \E x \in OldArrays : Assign(<<>>, x)

\* j[index] = x; the write goes through a dangling reference, which is
\* undefined: it is lost in freed storage, or the process is killed, or it
\* goes on with its memory corrupted
OldSubscriptIndexAssign(index, x) ==
  LET c == old_subscript_size_t(j, index)
      after == IF c.err # "" THEN c.node
               ELSE Store(c.node, c.ref, to_json(Deref(c.node, c.ref), x))
  IN  /\ j' = after
      /\ outcome' \in (IF c.err = "" THEN {"", Crashed, Corrupted} ELSE {c.err})
      /\ ret' = NoRet
      /\ Record(Op("old_subscript_index_assign", <<>>, <<>>, index, x), j)
      /\ UNCHANGED <<text, res, written>>

CallOldSubscriptIndexAssign ==
  Idle /\ \E index \in 0..(MaxNodes - 1), x \in OldElements :
            OldSubscriptIndexAssign(index, x)

NextOld ==
  \/ OldAssign
  \/ CallOldSubscriptIndexAssign
  \/ Continue

SpecOld == Init /\ [][NextOld]_vars

-----------------------------------------------------------------------------
(* The parser on every text over a small alphabet *)

Alphabet == {"[", "]", "{", "}", "\"", ",", ":", "1"}

\* the caller starts from the empty text
InitParse ==
  /\ j = json_null
  /\ pre = json_null
  /\ op = NoOp
  /\ outcome = ""
  /\ ret = NoRet
  /\ text = <<>>
  /\ res = NoResult
  /\ written = <<>>

\* the caller writes one more character of the text
Extend(c) ==
  /\ op.name = ""
  /\ Len(text) < MaxLen
  /\ text' = Append(text, c)
  /\ UNCHANGED <<j, pre, op, outcome, ret, res, written>>

\* parse(text)
ParseText ==
  /\ op.name = ""
  /\ res' \in Outcomes(parse(text))
  /\ op' = Op("parse", <<>>, <<>>, 0, json_null)
  /\ UNCHANGED <<j, pre, outcome, ret, text, written>>

NextParse ==
  \/ \E c \in Alphabet : Extend(c)
  \/ ParseText

SpecParse == InitParse /\ [][NextParse]_vars

-----------------------------------------------------------------------------
(* The parser on every text over the characters of number literals *)

NumberAlphabet == {"0", "1", ".", "e", "E", "+", "-", ","}

NextNumber ==
  \/ \E c \in NumberAlphabet : Extend(c)
  \/ ParseText

SpecNumber == InitParse /\ [][NextNumber]_vars

-----------------------------------------------------------------------------
(* The parser and dump on object texts written member by member *)

\* most members an object text is given
MaxMembers == 3

MemberKeys == {<<"a">>, <<"b">>, <<"a", " ", "b">>}
MemberValues == {<<"1">>, <<"2">>, <<"\"", "a", " ", "b", "\"">>}

\* the text "key": value of a member
MemberText(m) == <<"\"">> \o m.key \o <<"\"", ":", " ">> \o m.val

\* the object text with the members ms, separated by ", "
ObjectText(ms) ==
  LET F[k \in 0..Len(ms)] ==
        IF k = 0 THEN <<"{">>
        ELSE F[k - 1] \o (IF k > 1 THEN <<",", " ">> ELSE <<>>) \o MemberText(ms[k])
  IN  F[Len(ms)] \o <<"}">>

\* the caller writes one more member into the object text
WriteMember(key, val) ==
  /\ op.name = ""
  /\ Len(written) < MaxMembers
  /\ written' = Append(written, [key |-> key, val |-> val])
  /\ text' = ObjectText(written')
  /\ UNCHANGED <<j, pre, op, outcome, ret, res>>

\* parse(text).dump()
DumpResult ==
  /\ op.name = "parse"
  /\ res.kind = "ok"
  /\ ret' = RetString(dump(res.val))
  /\ op' = Op("dump", <<>>, <<>>, 0, json_null)
  /\ UNCHANGED <<j, pre, outcome, text, res, written>>

NextMembers ==
  \/ \E key \in MemberKeys, val \in MemberValues : WriteMember(key, val)
  \/ ParseText
  \/ DumpResult

SpecMembers == InitParse /\ [][NextMembers]_vars

-----------------------------------------------------------------------------
(* The parser on texts written word by word *)

\* most words a text is given
MaxWords == 4

Words ==
  { <<"n", "u", "l", "l">>,
    <<"n", "u", "l">>,
    <<"t", "r", "u", "e">>,
    <<"f", "a", "l", "s", "e">>,
    <<"1">>,
    <<"2">>,
    <<"1", ".", "5">>,
    <<"\"", "s", "\"">>,
    <<"\"", "a", "\"">>,
    <<"\"", "a", " ", "b", "\"">>,
    <<"[">>,
    <<"]">>,
    <<"{">>,
    <<"}">>,
    <<",">>,
    <<":">>,
    <<" ">> }

\* the caller writes one more word of the text
WriteWord(w) ==
  /\ op.name = ""
  /\ Len(written) < MaxWords
  /\ written' = Append(written, w)
  /\ text' = text \o w
  /\ UNCHANGED <<j, pre, op, outcome, ret, res>>

\* make_json(text)
MakeJsonText ==
  /\ op.name = ""
  /\ res' \in Outcomes(make_json(text))
  /\ op' = Op("make_json", <<>>, <<>>, 0, json_null)
  /\ UNCHANGED <<j, pre, outcome, ret, text, written>>

NextWords ==
  \/ \E w \in Words : WriteWord(w)
  \/ ParseText
  \/ MakeJsonText

SpecWords == InitParse /\ [][NextWords]_vars

-----------------------------------------------------------------------------
(* The parser on integer literals around the ends of the 64-bit range *)

\* most pieces a text is given
MaxPieces == 3

\* 922337203685477580 followed by 7 is LLONG_MAX, and followed by 8 the
\* magnitude of LLONG_MIN
Pieces ==
  { <<"-">>, <<"0">>, <<"7">>, <<"8">>, <<"9">>,
    SubSeq(LLONG_MAX_DIGITS, 1, 18) }

\* the caller writes one more piece at the end of the text
WritePiece(p) ==
  /\ op.name = ""
  /\ Len(written) < MaxPieces
  /\ written' = Append(written, p)
  /\ text' = text \o p
  /\ UNCHANGED <<j, pre, op, outcome, ret, res>>

NextInteger ==
  \/ \E p \in Pieces : WritePiece(p)
  \/ ParseText

SpecInteger == InitParse /\ [][NextInteger]_vars

-----------------------------------------------------------------------------
(* The parser on array and object texts whose separators vary *)

\* most elements or members a text is given
MaxItems == 2

ItemKeys == {<<"a">>, <<"b">>}
ItemValues == {<<"1">>, <<"t", "r", "u", "e">>, <<"\"", "s", "\"">>, <<"[", "]">>}

\* the characters written where the ':' of a member belongs
Colons == {":", ",", "}", "\""}

\* an element of an array text or a member of an object text: open is the
\* bracket of the text, sep tells that a ',' is written before the item
Item(open, key, colon, val, sep) ==
  [open |-> open, key |-> key, colon |-> colon, val |-> val, sep |-> sep]

ItemText(it) ==
  (IF it.sep THEN <<",">> ELSE <<>>)
    \o (IF it.open = "{" THEN <<"\"">> \o it.key \o <<"\"", it.colon>> ELSE <<>>)
    \o it.val

\* the text of the items its, brackets included
ItemsText(its) ==
  LET F[k \in 0..Len(its)] ==
        IF k = 0 THEN <<>> ELSE F[k - 1] \o ItemText(its[k])
  IN  IF its = <<>> THEN <<>>
      ELSE <<its[1].open>> \o F[Len(its)]
             \o <<IF its[1].open = "{" THEN "}" ELSE "]">>

\* the caller writes one more item into the text; the first item chooses
\* between array and object and has no ',' before it
WriteItem(it) ==
  /\ op.name = ""
  /\ Len(written) < MaxItems
  /\ IF written = <<>> THEN ~it.sep ELSE it.open = written[1].open
  /\ written' = Append(written, it)
  /\ text' = ItemsText(written')
  /\ UNCHANGED <<j, pre, op, outcome, ret, res>>

WriteElement ==
  \E val \in ItemValues, sep \in BOOLEAN :
    WriteItem(Item("[", <<>>, ":", val, sep))

WriteMemberOf ==
  \E key \in ItemKeys, colon \in Colons, val \in ItemValues, sep \in BOOLEAN :
    WriteItem(Item("{", key, colon, val, sep))

NextSeparators ==
  \/ WriteElement
  \/ WriteMemberOf
  \/ ParseText

SpecSeparators == InitParse /\ [][NextSeparators]_vars

-----------------------------------------------------------------------------
(* Properties of the calls on j (checked under Spec) *)

\* the node the last call was made on, before and after the call
Target == NodeAt(pre, op.path)
Result == NodeAt(j, op.path)

\* a string free of '"', '\' and whitespace
PlainString(str) == \A k \in 1..Len(str) : str[k] \notin Whitespace \cup {"\"", "\\"}

\* a value built from Null, Bool, Int, plain strings, and arrays and
\* objects (with plain keys) of such values
RECURSIVE Plain(_)
Plain(v) ==
  CASE v.type \in {"_null", "_bool", "_int"} -> TRUE
    [] v.type = "_string" -> PlainString(v.data.s)
    [] v.type = "_array" -> \A k \in 1..Len(v.data.a) : Plain(v.data.a[k])
    [] v.type = "_object" ->
         \A k \in DOMAIN v.data.o : PlainString(k) /\ Plain(v.data.o[k])
    [] OTHER -> FALSE

\* C1: for every value j built only from Null, Bool, Int, plain strings and
\* arrays and objects of such values, parse(dump(j)) succeeds and its
\* result is equal (operator==) to j.
RoundTripOfPlainValues ==
  (op.name = "roundtrip" /\ Plain(pre)) =>
     (res.kind = "ok" /\ JsonEq(res.val, pre))

\* a round trip of an object that holds an array of one element
RoundTripWitness ==
  /\ op.name = "roundtrip"
  /\ Plain(pre)
  /\ pre.type = "_object"
  /\ \E k \in DOMAIN pre.data.o :
       pre.data.o[k].type = "_array" /\ Len(pre.data.o[k].data.a) = 1
  /\ res.kind = "ok"

\* C2: on an array of length n and an index i < n, arr[i] = x succeeds and
\* stores x: a following const arr[i] returns x, dump shows the array with
\* x at position i, the length and every other element are as before.
IndexAssignmentIsStored ==
  (/\ op.name = "subscript_index_assign"
   /\ Target.type = "_array"
   /\ op.idx >= 0 /\ op.idx < Len(Target.data.a)) =>
     (/\ outcome = ""
      /\ Result.type = "_array"
      /\ Len(Result.data.a) = Len(Target.data.a)
      /\ LET c == const_subscript_int(Result, op.idx)
         IN  c.err = "" /\ JsonEq(Deref(c.node, c.ref), op.x)
      /\ \A k \in 1..Len(Target.data.a) :
           k # op.idx + 1 => JsonEq(Result.data.a[k], Target.data.a[k])
      /\ dump(Result) = dump(json_array([Target.data.a EXCEPT ![op.idx + 1] = op.x])))

\* the second element of an array of two is overwritten by a different value
IndexAssignmentWitness ==
  /\ op.name = "subscript_index_assign"
  /\ Target.type = "_array"
  /\ Len(Target.data.a) = 2
  /\ op.idx = 1
  /\ ~JsonEq(Target.data.a[2], op.x)
  /\ outcome = ""

\* C3: on an object, mutable operator[](key) with an absent key inserts
\* exactly that key with a Null child and refers to it, so that after
\* v[key] = x a const lookup of key gives x; with a present key nothing is
\* inserted and the member itself is referred to; every other member is as
\* before.
KeyAccessInsertsAndRefers ==
  (/\ op.name \in {"subscript_key", "subscript_key_assign"}
   /\ Target.type = "_object") =>
     (/\ outcome = ""
      /\ Result.type = "_object"
      /\ DOMAIN Result.data.o = DOMAIN Target.data.o \cup {op.key}
      /\ \A k \in DOMAIN Target.data.o \ {op.key} :
           JsonEq(Result.data.o[k], Target.data.o[k])
      /\ op.name = "subscript_key" =>
           JsonEq(Result.data.o[op.key],
                  IF op.key \in DOMAIN Target.data.o THEN Target.data.o[op.key]
                                                      ELSE json_null)
      /\ op.name = "subscript_key_assign" =>
           LET c == const_subscript_key(Result, op.key)
           IN  c.err = "" /\ JsonEq(Deref(c.node, c.ref), op.x))

\* v[key] = x with key absent from an object that has another member
KeyAccessWitness ==
  /\ op.name = "subscript_key_assign"
  /\ Target.type = "_object"
  /\ DOMAIN Target.data.o # {}
  /\ op.key \notin DOMAIN Target.data.o
  /\ op.x.type # "_null"
  /\ outcome = ""

\* C4: const operator[](key) on an object without key fails with the
\* KeyNotFoundError and inserts nothing; with key present it returns a copy
\* of the member.
ConstKeyLookup ==
  (/\ op.name = "const_subscript_key"
   /\ Target.type = "_object") =>
     (/\ JsonEq(j, pre)
      /\ op.key \notin DOMAIN Target.data.o =>
           (outcome \in KeyNotFoundError /\ ret.kind = "none")
      /\ op.key \in DOMAIN Target.data.o =>
           (outcome = "" /\ ret.kind = "json" /\ JsonEq(ret.v, Target.data.o[op.key])))

\* a const lookup of an absent key in an object that has a member
ConstKeyLookupWitness ==
  /\ op.name = "const_subscript_key"
  /\ Target.type = "_object"
  /\ DOMAIN Target.data.o # {}
  /\ op.key \notin DOMAIN Target.data.o
  /\ outcome \in KeyNotFoundError

\* C5: pop() on an empty array fails with the IndexOutOfRangeError (and
\* leaves the array as it was).
PopOfEmptyArrayFails ==
  (/\ op.name = "pop"
   /\ Target.type = "_array"
   /\ Target.data.a = <<>>) =>
     (outcome \in IndexOutOfRangeError /\ JsonEq(j, pre))

\* C6: mutable and const operator[](index) on an array of length n fail
\* with the IndexOutOfRangeError for every index >= n and succeed for every
\* index < n.
IndexRangeIsChecked ==
  (/\ op.name \in {"subscript_index_assign", "const_subscript_index"}
   /\ Target.type = "_array"
   /\ op.idx >= 0) =>
     (/\ op.idx >= Len(Target.data.a) => outcome \in IndexOutOfRangeError
      /\ op.idx < Len(Target.data.a) => outcome = "")

\* an index equal to the length of a non-empty array
IndexRangeWitness ==
  /\ op.name = "const_subscript_index"
  /\ Target.type = "_array"
  /\ Target.data.a # <<>>
  /\ op.idx = Len(Target.data.a)
  /\ outcome \in IndexOutOfRangeError

KeyCalls == {"subscript_key", "subscript_key_assign", "const_subscript_key",
             "remove", "to_map"}
IndexCalls == {"subscript_index_assign", "const_subscript_index"}
ArrayCalls == {"push", "pop", "to_array"}

\* C7 as stated: every call restricted to a tag fails with the
\* TypeAccessError on a value of another tag, operator[](index) for any index.
TypeAccessErrorForAnyIndex ==
  /\ (op.name \in KeyCalls /\ Target.type # "_object") => outcome \in TypeAccessError
  /\ (op.name \in IndexCalls \cup ArrayCalls /\ Target.type # "_array") =>
       outcome \in TypeAccessError

\* C7 as amended: every call restricted to a tag fails with the
\* TypeAccessError on a value of another tag, operator[](index) for every
\* index >= 0; a negative int index fails with "index is negative" before
\* the tag is looked at.
TypeAccessErrorOnWrongTag ==
  /\ (op.name \in KeyCalls /\ Target.type # "_object") => outcome \in TypeAccessError
  /\ (op.name \in ArrayCalls /\ Target.type # "_array") => outcome \in TypeAccessError
  /\ (op.name \in IndexCalls /\ Target.type # "_array") =>
       IF op.idx >= 0 THEN outcome \in TypeAccessError ELSE outcome = IndexNegative

\* element 0 of an object is asked for
TypeAccessErrorWitness ==
  /\ op.name = "subscript_index_assign"
  /\ Target.type = "_object"
  /\ op.idx = 0
  /\ outcome \in TypeAccessError

\* C12: for each built-in target type T, get_to<T>(ref) on a value whose tag
\* is not the tag of T leaves ref as it was, and get<T>() on such a value
\* returns the default value of T; for every pair of tag and T that do not
\* match, an Int target on a Float value and a Float target on an Int value
\* included.
MismatchedGetIsNoOp ==
  (op.name \in {"get", "get_to"} /\ Target.type # TagOf(op.x.type)) =>
     (/\ outcome = ""
      /\ JsonEq(j, pre)
      /\ op.name = "get_to" => ret.v.data = op.x.data
      /\ op.name = "get" => ret.v.data = DefaultOf(op.x.type))

\* C13: on an array a of length n, a.push(x) gives length n + 1 with x last
\* and the first n elements unchanged, and a.push(x) followed by a.pop()
\* leaves a with length n and equal to what it was before the push.
PushThenPopRestores ==
  /\ (op.name \in {"push", "push_pop"} /\ Target.type = "_array") => outcome = ""
  /\ (op.name = "push" /\ Target.type = "_array") =>
       (/\ Result.type = "_array"
        /\ Len(Result.data.a) = Len(Target.data.a) + 1
        /\ JsonEq(Result.data.a[Len(Result.data.a)], op.x)
        /\ \A k \in 1..Len(Target.data.a) : JsonEq(Result.data.a[k], Target.data.a[k]))
  /\ (op.name = "push_pop" /\ Target.type = "_array") =>
       (/\ Result.type = "_array"
        /\ Len(Result.data.a) = Len(Target.data.a)
        /\ JsonEq(Result, Target)
        /\ JsonEq(j, pre))

\* a value unlike the element already there is pushed to an array of one
\* element and popped again
PushThenPopWitness ==
  /\ op.name = "push_pop"
  /\ Target.type = "_array"
  /\ Len(Target.data.a) = 1
  /\ ~JsonEq(Target.data.a[1], op.x)
  /\ outcome = ""

\* C14: remove(key) on an object without key raises no error and leaves the
\* object equal to what it was; on an object with key it removes that
\* member and leaves every other member unchanged.
RemoveErasesOnlyKey ==
  (op.name = "remove" /\ Target.type = "_object") =>
     (/\ outcome = ""
      /\ Result.type = "_object"
      /\ DOMAIN Result.data.o = DOMAIN Target.data.o \ {op.key}
      /\ \A k \in DOMAIN Target.data.o \ {op.key} :
           JsonEq(Result.data.o[k], Target.data.o[k])
      /\ op.key \notin DOMAIN Target.data.o => (JsonEq(Result, Target) /\ JsonEq(j, pre)))

\* one of the two members of an object is removed
RemoveWitness ==
  /\ op.name = "remove"
  /\ Target.type = "_object"
  /\ op.key \in DOMAIN Target.data.o
  /\ DOMAIN Target.data.o # {op.key}
  /\ outcome = ""
  /\ DOMAIN Result.data.o = DOMAIN Target.data.o \ {op.key}

\* the name of the tag of a json made from a T
NameOf(T) ==
  CASE T = "_null" -> "null" [] T = "bool" -> "bool" [] T = "int64_t" -> "int"
    [] T = "double" -> "float" [] T = "string" -> "string"
    [] T = "_array" -> "array" [] T = "_object" -> "object"

\* C22: for each of the seven built-in constructions type() reports the
\* constructed tag and type_name() returns "null", "bool", "int", "float",
\* "string", "array" or "object"; a default-constructed value is Null and
\* json_init() returns an empty object.
TypeReportsConstruction ==
  /\ op.name = "construct" =>
       (/\ get_type(j) = TagOf(op.x.type)
        /\ ret.s = <<NameOf(op.x.type)>>
        /\ op.x.type = "_null" => JsonEq(j, json_null))
  /\ op.name = "json_init" =>
       (/\ get_type(j) = "_object"
        /\ j.data.index = "_object" /\ j.data.o = <<>>
        /\ ret.s = <<"object">>)

\* a json is constructed from the double 2.5
TypeReportsWitness ==
  /\ op.name = "construct"
  /\ op.x.type = "double"
  /\ op.x.data.f.m # 0
  /\ get_type(j) = "_float"
  /\ ret.s = <<"float">>

\* the tag of v and of every value below it names the alternative held
RECURSIVE WellTagged(_)
WellTagged(v) ==
  /\ v.type = v.data.index
  /\ v.data.index = "_array" => \A k \in 1..Len(v.data.a) : WellTagged(v.data.a[k])
  /\ v.data.index = "_object" => \A k \in DOMAIN v.data.o : WellTagged(v.data.o[k])

\* C23: after any sequence of constructions, copies, moves, assignments
\* from built-in types, operator[] accesses, push, pop, remove and parse,
\* the tag of every value of every tree, a moved-from value included, names
\* the variant its data holds.
TagNamesVariant ==
  Alive =>
     (/\ WellTagged(j)
      /\ WellTagged(pre)
      /\ ret.kind = "json" => WellTagged(ret.v)
      /\ ret.kind = "array" => \A k \in 1..Len(ret.a) : WellTagged(ret.a[k])
      /\ ret.kind = "map" => \A k \in DOMAIN ret.o : WellTagged(ret.o[k])
      /\ res.kind = "ok" => WellTagged(res.val))

\* an array with an element was moved from and left empty, and a value was
\* given another tag by assignment
TagNamesVariantWitness ==
  /\ op.name = "move"
  /\ op.path # <<>>
  /\ Target.type = "_array" /\ Target.data.a # <<>>
  /\ Result.type = "_array" /\ Result.data.a = <<>>
  /\ ret.v.data.a # <<>>
  /\ WellTagged(j)

-----------------------------------------------------------------------------
(* Properties of the parser (checked under SpecParse) *)

\* the text the parser works on
Stripped == remove_whitespace(text)

Occurs(c, str) == \E k \in 1..Len(str) : str[k] = c

\* C8 as stated: the ParseError that reaches the caller of parse(text)
\* carries the offset at which the outermost parse call started, offset 0.
ParseErrorCarriesStartOffset ==
  (op.name = "parse" /\ res.kind = "throw") => res.pos = 0

\* C8 as amended: the ParseError that reaches the caller of parse(text)
\* carries the value the shared cursor had where the failure was detected,
\* also when that was inside a nested array element or object member; it is
\* offset 0 only when the failure was detected before anything was consumed.
ParseErrorCarriesCursor ==
  (op.name = "parse" /\ res.kind = "throw") =>
     (res.pos = res.at /\ res.pos = res.index)

\* a failure detected inside the value of an object member, beyond the key
\* and the separator
ParseErrorWitness ==
  /\ op.name = "parse"
  /\ res.kind = "throw"
  /\ Len(Stripped) >= 5 /\ Stripped[1] = "{" /\ Stripped[5] = "["
  /\ res.what = "parse_object"
  /\ res.pos >= 5

\* a text that opens a string, an array or an object and never closes it
Unterminated(str) ==
  /\ str # <<>>
  /\ \/ str[1] = "\"" /\ ~Occurs("\"", Tail(str))
     \/ str[1] = "[" /\ ~Occurs("]", str)
     \/ str[1] = "{" /\ ~Occurs("}", str)

\* C9: parsing a text in which a string, an array or an object is not
\* terminated fails with ParseError; an unterminated string literal never
\* yields a String value.
UnterminatedFails ==
  (op.name = "parse" /\ Unterminated(Stripped)) => res.kind = "throw"

\* C25: parse(text) terminates for every text, returning a Value or raising
\* ParseError, with no more parse frames on the stack than the text has
\* nested brackets plus one (StackLimit is beyond that for every text of the
\* model), also when an array or object holds an unterminated string.
ParseTerminatesWithinNesting ==
  op.name = "parse" => res.kind \in {"ok", "throw"}

\* an array text without strings that has an empty element position or a
\* comma directly followed by the closing bracket
MalformedArray(str) ==
  /\ Len(str) >= 2
  /\ str[1] = "["
  /\ str[Len(str)] = "]"
  /\ \A k \in 1..Len(str) : str[k] \in {"[", "]", ",", "1"}
  /\ \/ str[2] = ","
     \/ \E k \in 1..(Len(str) - 1) : str[k] = "," /\ str[k + 1] \in {",", "]"}

\* C10: parsing an array text with an empty element position ("[,1]",
\* "[1,,2]") or a trailing comma directly followed by ']' ("[1,]") fails
\* with ParseError.
MalformedArrayFails ==
  (op.name = "parse" /\ MalformedArray(Stripped)) => res.kind = "throw"

-----------------------------------------------------------------------------
(* Properties of number literals (checked under SpecNumber) *)

\* the longest prefix of str made of digits, '.', 'e', 'E', '+' and '-'
RECURSIVE ScannedRun(_)
ScannedRun(str) ==
  IF str # <<>> /\ Head(str) \in Digits \cup {".", "e", "E", "+", "-"}
    THEN <<Head(str)>> \o ScannedRun(Tail(str))
    ELSE <<>>

AllDigits(str) == \A k \in 1..Len(str) : str[k] \in Digits

\* [-] digits [. [digits]] [(e|E) [+|-] digits], digits standing for one
\* digit or more
NumericLiteral(lit) ==
  \E a \in 0..Len(lit), b \in 0..Len(lit), c \in 0..Len(lit) :
    LET sign == SubSeq(lit, 1, a)
        int == SubSeq(lit, a + 1, b)
        frac == SubSeq(lit, b + 1, c)
        exp == SubSeq(lit, c + 1, Len(lit))
        expDigits == IF Len(exp) >= 2 /\ exp[2] \in {"+", "-"}
                       THEN SubSeq(exp, 3, Len(exp)) ELSE Tail(exp)
    IN  /\ a <= b /\ b <= c
        /\ sign \in {<<>>, <<"-">>}
        /\ int # <<>> /\ AllDigits(int)
        /\ frac # <<>> => (frac[1] = "." /\ AllDigits(Tail(frac)))
        /\ exp # <<>> =>
             (exp[1] \in {"e", "E"} /\ expDigits # <<>> /\ AllDigits(expDigits))

\* the text starts a number literal: parse hands it to parse_number
StartsNumber(str) == str # <<>> /\ (str[1] \in Digits \/ str[1] = "-")

\* C11: a number literal whose scanned text is not a valid numeric literal
\* as a whole ("1e", "1e+", "1-1", "1.1.1") fails with ParseError instead
\* of producing a number from a prefix of it.
MalformedNumberFails ==
  (/\ op.name = "parse"
   /\ StartsNumber(Stripped)
   /\ ~NumericLiteral(ScannedRun(Stripped))) => res.kind = "throw"

\* C17: a number literal is parsed as Float if and only if its scanned text
\* (the longest run of digits, '.', 'e', 'E', '+', '-' from the cursor)
\* contains '.', 'e' or 'E', and as Int otherwise; in both cases the cursor
\* ends just past the scanned run.
FloatByMarkOnly ==
  (/\ op.name = "parse"
   /\ StartsNumber(Stripped)
   /\ res.kind = "ok") =>
     LET run == ScannedRun(Stripped)
         marked == \E k \in 1..Len(run) : run[k] \in {".", "e", "E"}
     IN  /\ res.val.type = (IF marked THEN "_float" ELSE "_int")
         /\ res.index = Len(run)

\* a literal with an exponent and no '.', followed by more text
FloatByMarkWitness ==
  /\ op.name = "parse"
  /\ StartsNumber(Stripped)
  /\ res.kind = "ok"
  /\ res.val.type = "_float"
  /\ ~Occurs(".", ScannedRun(Stripped))
  /\ Len(ScannedRun(Stripped)) < Len(Stripped)
  /\ res.index = Len(ScannedRun(Stripped))

-----------------------------------------------------------------------------
(* Properties of object texts (checked under SpecMembers) *)

\* the members of the object o as "key": value pairs separated by ", ",
\* in the order of the sequence of keys ks
Listing(o, ks) ==
  LET F[k \in 0..Len(ks)] ==
        IF k = 0 THEN <<>>
        ELSE F[k - 1] \o (IF k > 1 THEN <<",", " ">> ELSE <<>>)
               \o <<"\"">> \o ks[k] \o <<"\"", ":", " ">> \o dump(o[ks[k]])
  IN  F[Len(ks)]

\* the keys of the object o in ascending order
Ascending(o) ==
  CHOOSE ks \in [1..Cardinality(DOMAIN o) -> DOMAIN o] :
    \A a \in DOMAIN ks, b \in DOMAIN ks : a < b => StrLess(ks[a], ks[b])

\* C15: dump of an object lists its members as "key": value pairs
\* separated by ", " in ascending key order, whatever the order in which
\* the keys stood in the parsed text.
DumpListsKeysAscending ==
  (op.name = "dump" /\ res.val.type = "_object") =>
     ret.s = <<"{">> \o Listing(res.val.data.o, Ascending(res.val.data.o)) \o <<"}">>

\* the text {"b": 2, "a": 1} is parsed and dumped as {"a": 1, "b": 2}
DumpListsKeysWitness ==
  /\ op.name = "dump"
  /\ text = <<"{", "\"", "b", "\"", ":", " ", "2", ",", " ", "\"", "a", "\"", ":", " ", "1", "}">>
  /\ ret.s = <<"{", "\"", "a", "\"", ":", " ", "1", ",", " ", "\"", "b", "\"", ":", " ", "2", "}">>

-----------------------------------------------------------------------------
(* Properties of texts of words (checked under SpecWords) *)

\* str with every whitespace character left out
RECURSIVE WithoutWhitespace(_)
WithoutWhitespace(str) ==
  IF str = <<>> THEN <<>>
  ELSE IF Head(str) \in {" ", "\t", "\n", "\f", "\r"} THEN WithoutWhitespace(Tail(str))
  ELSE <<Head(str)>> \o WithoutWhitespace(Tail(str))

\* the characters a value can start with
Starters == {"n", "t", "f", "\"", "[", "{", "-"} \cup Digits

\* parse(t) succeeds with a value of the tag
ParsesTo(t, tag) ==
  (op.name = "parse" /\ text = t) => (res.kind = "ok" /\ res.val.type = tag)

\* parse(t) fails with ParseError
FailsToParse(t) == (op.name = "parse" /\ text = t) => res.kind = "throw"

\* the texts the claim names
NamedTexts ==
  /\ ParsesTo(<<"n", "u", "l", "l">>, "_null")
  /\ ParsesTo(<<"t", "r", "u", "e">>, "_bool")
  /\ ParsesTo(<<"f", "a", "l", "s", "e">>, "_bool")
  /\ ParsesTo(<<"1">>, "_int")
  /\ ParsesTo(<<"1", ".", "5">>, "_float")
  /\ ParsesTo(<<"\"", "s", "\"">>, "_string")
  /\ ParsesTo(<<"[", "]">>, "_array")
  /\ ParsesTo(<<"{", "}">>, "_object")
  /\ FailsToParse(<<"n", "u", "l">>)
  /\ FailsToParse(<<"[", "1", ",", "2">>)
  /\ FailsToParse(<<"{", "\"", "a", "\"", ":", "}">>)

\* C16 as stated: the texts null, true, false, 1, 1.5, "s", [] and {} parse
\* to Null, Bool, Bool, Int, Float, String, Array and Object; nul, [1,2 and
\* {"a":} fail with ParseError; a text whose first character is none of n,
\* t, f, '"', '[', '{', a digit or '-' fails with ParseError.
ParseByFirstCharacter ==
  /\ NamedTexts
  /\ (op.name = "parse" /\ text # <<>> /\ text[1] \notin Starters) => res.kind = "throw"

\* C16 as amended: the named texts parse to the named tags or fail as
\* named; a text that has a character and whose first character other than
\* whitespace is none of n, t, f, '"', '[', '{', a digit or '-', or that has
\* no character other than whitespace, fails with ParseError.
ParseByFirstCharacterAfterStripping ==
  /\ NamedTexts
  /\ (/\ op.name = "parse"
      /\ text # <<>>
      /\ \/ WithoutWhitespace(text) = <<>>
         \/ WithoutWhitespace(text)[1] \notin Starters) => res.kind = "throw"

\* the object text whose member has no value
ParseByFirstCharacterWitness ==
  /\ op.name = "parse"
  /\ text = <<"{", "\"", "a", "\"", ":", "}">>
  /\ res.kind = "throw"

\* no String and no key of an Object in the tree v has a whitespace character
RECURSIVE NoWhitespaceIn(_)
NoWhitespaceIn(v) ==
  CASE v.type = "_string" -> WithoutWhitespace(v.data.s) = v.data.s
    [] v.type = "_array" -> \A k \in 1..Len(v.data.a) : NoWhitespaceIn(v.data.a[k])
    [] v.type = "_object" ->
         \A k \in DOMAIN v.data.o : WithoutWhitespace(k) = k /\ NoWhitespaceIn(v.data.o[k])
    [] OTHER -> TRUE

MakeJsonIsParse ==
  /\ (op.name \in {"parse", "make_json"} /\ text = <<>>) =>
       (res.kind = "ok" /\ JsonEq(res.val, json_null))
  /\ op.name = "make_json" =>
       \E p \in Outcomes(parse(text)) :
         /\ p.kind = res.kind
         /\ res.kind = "ok" => JsonEq(res.val, p.val)

\* make_json of a text with whitespace that parses to an array with an
\* element
MakeJsonWitness ==
  /\ op.name = "make_json"
  /\ Occurs(<<" ">>, written)
  /\ res.kind = "ok"
  /\ res.val.type = "_array"
  /\ res.val.data.a # <<>>

\* the value a member value text stands for
MemberValue(val) ==
  CASE val = <<"1">> -> json_int(1)
    [] val = <<"2">> -> json_int(2)
    [] val = <<"\"", "a", " ", "b", "\"">> -> json_string(<<"a", "b">>)

\* the key a member is stored under: the key text without its whitespace
MemberKey(key) == WithoutWhitespace(key)

\* the position of the last member written with the key of member i
LastOccurrence(i) ==
  CHOOSE n \in DOMAIN written :
    /\ written[n].key = written[i].key
    /\ \A q \in DOMAIN written : written[q].key = written[i].key => q <= n

\* C18: when an object text has the same key more than once, the parsed
\* object has that key once, with the value of its last occurrence in the
\* text.
LastDuplicateWins ==
  (op.name = "parse" /\ written # <<>>) =>
     (/\ res.kind = "ok"
      /\ res.val.type = "_object"
      /\ DOMAIN res.val.data.o = {MemberKey(written[i].key) : i \in DOMAIN written}
      /\ \A i \in DOMAIN written :
           JsonEq(res.val.data.o[MemberKey(written[i].key)],
                  MemberValue(written[LastOccurrence(i)].val))
      /\ Len(SortedKeys(DOMAIN res.val.data.o))
           = Cardinality({written[i].key : i \in DOMAIN written}))

\* a key written twice with different values, another key in between
LastDuplicateWitness ==
  /\ op.name = "parse"
  /\ Len(written) = 3
  /\ written[1].key = written[3].key
  /\ written[2].key # written[1].key
  /\ written[1].val # written[3].val
  /\ res.kind = "ok"
  /\ JsonEq(res.val.data.o[MemberKey(written[3].key)], MemberValue(written[3].val))

-----------------------------------------------------------------------------
(* Properties of copies (checked under SpecCopy) *)

IntegerLiteral(str) ==
  LET body == IF str # <<>> /\ Head(str) = "-" THEN Tail(str) ELSE str
  IN  body # <<>> /\ \A k \in 1..Len(body) : body[k] \in Digits

\* the digits of the integer literal str from its first digit that is not 0
Significant(str) ==
  LET body == IF Head(str) = "-" THEN Tail(str) ELSE str
      zeros == {k \in 0..Len(body) : \A q \in 1..k : body[q] = "0"}
      lead == CHOOSE k \in zeros : \A q \in zeros : q <= k
  IN  SubSeq(body, lead + 1, Len(body))

\* the digit string ds is below or equal to the digit string lim of 19 digits
AtMost(ds, lim) ==
  \/ Len(ds) < Len(lim)
  \/ /\ Len(ds) = Len(lim)
     /\ \A k \in 1..Len(ds) :
          (\A q \in 1..(k - 1) : ds[q] = lim[q]) => DigitVal(ds[k]) <= DigitVal(lim[k])

\* the integer literal str lies in [-2^63, 2^63 - 1]
InInt64Range(str) ==
  AtMost(Significant(str),
         IF Head(str) = "-" THEN [LLONG_MAX_DIGITS EXCEPT ![19] = "8"]
         ELSE LLONG_MAX_DIGITS)

\* the value of the integer literal str
LiteralValue(str) ==
  LET sig == Significant(str)
      F[k \in 0..Len(sig)] == IF k = 0 THEN 0 ELSE 10 * F[k - 1] + DigitVal(sig[k])
  IN  IF Len(sig) > 9 THEN [neg |-> Head(str) = "-", digits |-> sig]
      ELSE IF Head(str) = "-" THEN -F[Len(sig)] ELSE F[Len(sig)]

\* C28: an integer literal outside the 64-bit signed range fails with
\* ParseError, never yielding a wrapped or truncated Int, and every
\* integer literal within [-2^63, 2^63 - 1] parses to exactly that Int.
IntegerLiteralExactOrError ==
  (op.name = "parse" /\ IntegerLiteral(text)) =>
     IF InInt64Range(text)
       THEN /\ res.kind = "ok"
            /\ res.val.type = "_int"
            /\ res.val.data.i = LiteralValue(text)
       ELSE res.kind = "throw"

\* one more than LLONG_MAX was refused
IntegerLiteralWitness ==
  /\ op.name = "parse"
  /\ text = [LLONG_MAX_DIGITS EXCEPT ![19] = "8"]
  /\ res.kind = "throw"

\* LLONG_MIN was parsed
LeastIntegerWitness ==
  /\ op.name = "parse"
  /\ text = <<"-">> \o [LLONG_MAX_DIGITS EXCEPT ![19] = "8"]
  /\ res.kind = "ok"
  /\ res.val.data.i = [neg |-> TRUE, digits |-> [LLONG_MAX_DIGITS EXCEPT ![19] = "8"]]

\* the items its with ':' after every key and ',' between any two items
Punctuated(its) ==
  [k \in 1..Len(its) |-> [its[k] EXCEPT !.colon = ":", !.sep = (k > 1)]]

\* two number tokens of its stand side by side
TokensMerge(its) ==
  \E k \in 1..(Len(its) - 1) :
    /\ its[k].open = "["
    /\ ~its[k + 1].sep
    /\ StartsNumber(its[k].val)
    /\ Head(its[k + 1].val) \in NumberChars

\* C27: the character after a key of an object text is skipped without
\* being looked at, and the ',' between elements and between members is
\* optional: with another character than ':' after a key, or without the
\* ',' between two items whose tokens do not merge, the text parses to the
\* value of the fully punctuated text, without ParseError.
SeparatorsAreOptional ==
  (op.name = "parse" /\ written # <<>> /\ ~TokensMerge(written)) =>
     /\ res.kind = "ok"
     /\ LET full == parse(ItemsText(Punctuated(written)))
        IN  full.kind = "ok" /\ JsonEq(res.val, full.val)

\* two members parsed, neither key followed by ':', no ',' between them
SeparatorsWitness ==
  /\ op.name = "parse"
  /\ Len(written) = 2
  /\ written[1].open = "{"
  /\ written[1].colon # ":"
  /\ written[2].colon # ":"
  /\ written[1].key # written[2].key
  /\ ~written[2].sep
  /\ res.kind = "ok"
  /\ res.val.type = "_object"
  /\ DOMAIN res.val.data.o = {written[1].key, written[2].key}

\* two array elements parsed with no ',' between them
ElementsWitness ==
  /\ op.name = "parse"
  /\ Len(written) = 2
  /\ written[1].open = "["
  /\ ~written[2].sep
  /\ res.kind = "ok"
  /\ Len(res.val.data.a) = 2

\* C26: whenever operator[](key), operator[](index), push, pop, remove,
\* to_array or to_map fails with TypeAccessError, IndexOutOfRangeError or
\* KeyNotFoundError, the value is structurally equal to what it was before
\* the call.
FailedCallChangesNothing ==
  (/\ op.name \in KeyCalls \cup IndexCalls \cup ArrayCalls
   /\ outcome \in TypeAccessError \cup IndexOutOfRangeError \cup KeyNotFoundError) =>
     JsonEq(j, pre)

\* an element beyond the end of a non-empty array was assigned to
FailedCallWitness ==
  /\ op.name = "subscript_index_assign"
  /\ Target.type = "_array"
  /\ Target.data.a # <<>>
  /\ op.idx >= Len(Target.data.a)
  /\ outcome = IndexOutOfRange
  /\ JsonEq(j, pre)

-----------------------------------------------------------------------------
(* Properties of the older header (checked under SpecOld) *)

\* C24: with the older header, an assignment arr[i] = x through the mutable
\* index accessor does not change the stored array: a later arr[i] and
\* dump(arr) still show the old element.
OldIndexAssignmentIsLost ==
  (/\ op.name = "old_subscript_index_assign"
   /\ Target.type = "_array"
   /\ op.idx < Len(Target.data.a)) =>
     (/\ outcome = ""
      /\ JsonEq(j, pre)
      /\ LET c == const_subscript_size_t(Result, op.idx)
         IN  c.err = "" /\ JsonEq(Deref(c.node, c.ref), Target.data.a[op.idx + 1])
      /\ dump(Result) = dump(Target))

=============================================================================
